---------------------------- MODULE Spec2Model ----------------------------
(***************************************************************************)
(* Model of src/pid_utils/pid.c: the PID controller, the                  *)
(* time-proportioning modulator (TPWM) and HysteresisSwitch.               *)
(*                                                                         *)
(* Every C double is modelled as an exact rational <<n, d>> (d > 0, lowest *)
(* terms): the arithmetic is that of the code without rounding, and        *)
(* NaN/infinity do not occur.                                              *)
(***************************************************************************)
EXTENDS Integers, Sequences, FiniteSets, TLC

VARIABLES
    pid,      \* the PID struct
    last,     \* the last PID call: its name, arguments and return value, and the
              \* struct and the fresh flag as they were before it
    fresh,    \* no PID_Update has been called since PID_Init or the last PID_Reset
    frozen,   \* the current_output passed at the last Auto->Manual PID_SetMode
    pid2,     \* a second PID struct, driven with the same calls but other setpoints
    nops,     \* number of PID calls made so far
    tpwm,     \* the TPWM struct
    tlast,    \* the last TPWM_Update call: arguments, t_in_win before, return value
    tsum,     \* sum of all dt passed to TPWM_Update since TPWM_Init
    tsmall,   \* every dt passed so far satisfied 0 <= dt < window_s
    ticks,    \* number of TPWM_Update calls made so far
    hy        \* the caller of HysteresisSwitch: its inputs and its persisted state

vars == <<pid, last, fresh, frozen, pid2, nops, tpwm, tlast, tsum, tsmall, ticks, hy>>

---------------------------------------------------------------------------
(* Bounds of the model. *)
MaxOps == 4
MaxModeOps == 5
MaxPairOps == 3
MaxTicks == 3
MaxScenarioTicks == 100
MaxHystCalls == 2

---------------------------------------------------------------------------
(* double arithmetic, exact *)

Abs(x) == IF x < 0 THEN -x ELSE x

RECURSIVE GCD(_, _)
GCD(a, b) == IF b = 0 THEN a ELSE GCD(b, a % b)

LCM(a, b) == (a \div GCD(a, b)) * b

Rat(n, d) ==
    LET s == IF d < 0 THEN -1 ELSE 1
        g == GCD(Abs(n), Abs(d))
    IN  <<(s * n) \div g, (s * d) \div g>>

Dbl(n) == <<n, 1>>

Zero == Dbl(0)

\* numerators of a and b over their common denominator
Num(a, b) == a[1] * (LCM(a[2], b[2]) \div a[2])

Add(a, b) == Rat(Num(a, b) + Num(b, a), LCM(a[2], b[2]))
Sub(a, b) == Rat(Num(a, b) - Num(b, a), LCM(a[2], b[2]))
Mul(a, b) ==
    LET g1 == GCD(Abs(a[1]), b[2])
        g2 == GCD(Abs(b[1]), a[2])
    IN  Rat((a[1] \div g1) * (b[1] \div g2), (a[2] \div g2) * (b[2] \div g1))
Div(a, b) == Mul(a, Rat(b[2], b[1]))
Neg(a) == <<-a[1], a[2]>>

Lt(a, b) == Num(a, b) < Num(b, a)
Gt(a, b) == Lt(b, a)
Le(a, b) == ~Lt(b, a)
Ge(a, b) == ~Lt(a, b)

Half == Rat(1, 2)

---------------------------------------------------------------------------
(* PID core *)

\* Clamp with the upper test left out
ClampNoUpper(x, lo, hi) == IF Lt(x, lo) THEN lo ELSE x

\* if (x > hi) x = hi; if (x < lo) x = lo;   (in this order)
Clamp(x, lo, hi) ==
    LET x1 == IF Gt(x, hi) THEN hi ELSE x
    IN  IF Lt(x1, lo) THEN lo ELSE x1

DefaultTs == Rat(1, 1000)
DefaultTau == Rat(1, 100)
DefaultBeta == Dbl(1)

\* Ts / (tau + Ts)
Alpha(Ts, tau) == Div(Ts, Add(tau, Ts))

PID_Init(Kp, Ki, Kd, Ts, out_min, out_max) ==
    LET ts == IF Gt(Ts, Zero) THEN Ts ELSE DefaultTs
    IN  [ Kp |-> Kp, Ki |-> Ki, Kd |-> Kd, Ts |-> ts,
          beta |-> DefaultBeta, tau |-> DefaultTau,
          out_min |-> out_min, out_max |-> out_max,
          in_auto |-> TRUE, manual_out |-> Zero,
          integrator |-> Zero, d_term |-> Zero, prev_meas |-> Zero,
          first_update |-> TRUE,
          d_alpha |-> Alpha(ts, DefaultTau) ]

\* PID_SetAdvanced that keeps the smoothing coefficient it finds
PID_SetAdvancedStaleAlpha(p, beta, tau) ==
    LET b1 == IF Lt(beta, Zero) THEN Zero ELSE beta
        b2 == IF Gt(b1, Dbl(1)) THEN Dbl(1) ELSE b1
        t1 == IF Lt(tau, Zero) THEN Zero ELSE tau
    IN  [p EXCEPT !.beta = b2, !.tau = t1]

PID_SetAdvanced(p, beta, tau) ==
    LET b1 == IF Lt(beta, Zero) THEN Zero ELSE beta
        b2 == IF Gt(b1, Dbl(1)) THEN Dbl(1) ELSE b1
        t1 == IF Lt(tau, Zero) THEN Zero ELSE tau
    IN  [p EXCEPT !.beta = b2, !.tau = t1, !.d_alpha = Alpha(p.Ts, t1)]

\* PID_SetOutputLimits that stores its arguments in the order given
PID_SetOutputLimitsNoSwap(p, out_min, out_max) ==
    [p EXCEPT !.out_min = out_min, !.out_max = out_max,
              !.integrator = Clamp(p.integrator, out_min, out_max)]

PID_SetOutputLimits(p, out_min, out_max) ==
    LET swap == Gt(out_min, out_max)
        lo == IF swap THEN out_max ELSE out_min
        hi == IF swap THEN out_min ELSE out_max
    IN  [p EXCEPT !.out_min = lo, !.out_max = hi,
                  !.integrator = Clamp(p.integrator, lo, hi)]

\* Kp * (setpoint - measurement): the proportional term on the plain error
PTermNoWeight(p, setpoint, measurement) ==
    Mul(p.Kp, Sub(setpoint, measurement))

\* Kp * (beta * setpoint - measurement)
PTerm(p, setpoint, measurement) ==
    Mul(p.Kp, Sub(Mul(p.beta, setpoint), measurement))

\* PID_SetMode that acts on the requested mode alone, whatever the current one
PID_SetModeAlways(p, in_auto, current_output, current_measurement, setpoint) ==
    IF ~in_auto
    THEN [p EXCEPT !.manual_out = current_output, !.in_auto = in_auto]
    ELSE LET pt == PTerm(p, setpoint, current_measurement)
             d == p.d_term
             i == Sub(p.manual_out, Add(pt, d))
         IN  [p EXCEPT !.integrator = Clamp(i, p.out_min, p.out_max),
                       !.prev_meas = current_measurement,
                       !.first_update = FALSE,
                       !.in_auto = in_auto]

\* PID_SetMode whose Manual->Auto branch keeps the previous measurement
PID_SetModeKeepPrevMeas(p, in_auto, current_output, current_measurement, setpoint) ==
    IF p.in_auto /\ ~in_auto
    THEN [p EXCEPT !.manual_out = current_output, !.in_auto = in_auto]
    ELSE IF ~p.in_auto /\ in_auto
    THEN LET pt == PTerm(p, setpoint, current_measurement)
             d == p.d_term
             i == Sub(p.manual_out, Add(pt, d))
         IN  [p EXCEPT !.integrator = Clamp(i, p.out_min, p.out_max),
                       !.first_update = FALSE,
                       !.in_auto = in_auto]
    ELSE [p EXCEPT !.in_auto = in_auto]

PID_SetMode(p, in_auto, current_output, current_measurement, setpoint) ==
    IF p.in_auto /\ ~in_auto
    THEN [p EXCEPT !.manual_out = current_output, !.in_auto = in_auto]
    ELSE IF ~p.in_auto /\ in_auto
    THEN LET pt == PTerm(p, setpoint, current_measurement)
             d == p.d_term
             i == Sub(p.manual_out, Add(pt, d))
         IN  [p EXCEPT !.integrator = Clamp(i, p.out_min, p.out_max),
                       !.prev_meas = current_measurement,
                       !.first_update = FALSE,
                       !.in_auto = in_auto]
    ELSE [p EXCEPT !.in_auto = in_auto]

\* PID_Reset that also returns the controller to Auto
PID_ResetToAuto(p, measurement, output) ==
    [p EXCEPT !.integrator = output, !.d_term = Zero,
              !.prev_meas = measurement, !.first_update = TRUE,
              !.in_auto = TRUE]

PID_Reset(p, measurement, output) ==
    [p EXCEPT !.integrator = output, !.d_term = Zero,
              !.prev_meas = measurement, !.first_update = TRUE]

\* dm = (measurement - prev_meas) / Ts; d_unf = -Kd * dm;
\* d_term += d_alpha * (d_unf - d_term)
DerivFilter(p, prev_meas, d_term, measurement) ==
    LET dm == Div(Sub(measurement, prev_meas), p.Ts)
        d_unf == Mul(Neg(p.Kd), dm)
    IN  Add(d_term, Mul(p.d_alpha, Sub(d_unf, d_term)))

\* WindupBlocked with the low side left out
WindupBlockedHighOnly(u_pre, e, out_min, out_max) ==
    Gt(u_pre, out_max) /\ Gt(e, Zero)

\* WindupBlocked on any tentative output beyond a limit, whatever the error
WindupBlockedAnySign(u_pre, e, out_min, out_max) ==
    Gt(u_pre, out_max) \/ Lt(u_pre, out_min)

\* (u_pre > out_max && e > 0) || (u_pre < out_min && e < 0)
WindupBlocked(u_pre, e, out_min, out_max) ==
    \/ Gt(u_pre, out_max) /\ Gt(e, Zero)
    \/ Lt(u_pre, out_min) /\ Lt(e, Zero)

PID_UpdateManual(p, setpoint, measurement) ==
    LET d1 == DerivFilter(p, p.prev_meas, p.d_term, measurement)
        m == Clamp(p.manual_out, p.out_min, p.out_max)
    IN  [ pid |-> [p EXCEPT !.d_term = d1, !.prev_meas = measurement,
                            !.manual_out = m],
          ret |-> m ]

\* PID_UpdateAuto with the derivative taken on the error: the derivative
\* memory holds measurement - setpoint
PID_UpdateAutoDerivOnError(p, setpoint, measurement) ==
    LET pt == PTerm(p, setpoint, measurement)
        me == Sub(measurement, setpoint)
        d0 == IF p.first_update THEN Zero ELSE p.d_term
        pm == IF p.first_update THEN me ELSE p.prev_meas
        d == DerivFilter(p, pm, d0, me)
        e == Sub(setpoint, measurement)
        i_candidate == Add(p.integrator, Mul(Mul(p.Ki, p.Ts), e))
        u_pre == Add(Add(pt, i_candidate), d)
        i == IF ~WindupBlocked(u_pre, e, p.out_min, p.out_max)
             THEN i_candidate ELSE p.integrator
        u == Add(Add(pt, i), d)
    IN  [ pid |-> [p EXCEPT !.d_term = d, !.first_update = FALSE,
                            !.prev_meas = me, !.integrator = i],
          ret |-> Clamp(u, p.out_min, p.out_max) ]

PID_UpdateAuto(p, setpoint, measurement) ==
    LET pt == PTerm(p, setpoint, measurement)
        d0 == IF p.first_update THEN Zero ELSE p.d_term
        pm == IF p.first_update THEN measurement ELSE p.prev_meas
        d == DerivFilter(p, pm, d0, measurement)
        e == Sub(setpoint, measurement)
        i_candidate == Add(p.integrator, Mul(Mul(p.Ki, p.Ts), e))
        u_pre == Add(Add(pt, i_candidate), d)
        i == IF ~WindupBlocked(u_pre, e, p.out_min, p.out_max)
             THEN i_candidate ELSE p.integrator
        u == Add(Add(pt, i), d)
    IN  [ pid |-> [p EXCEPT !.d_term = d, !.first_update = FALSE,
                            !.prev_meas = measurement, !.integrator = i],
          ret |-> Clamp(u, p.out_min, p.out_max) ]

PID_Update(p, setpoint, measurement) ==
    IF ~p.in_auto
    THEN PID_UpdateManual(p, setpoint, measurement)
    ELSE PID_UpdateAuto(p, setpoint, measurement)

---------------------------------------------------------------------------
(* Inputs of the PID calls *)

\* <<Kp, Ki, Kd>>: P, PI, PD and PID tunings
Gains == {<<Dbl(2), Dbl(0), Dbl(0)>>, <<Dbl(1), Dbl(1), Dbl(0)>>,
          <<Dbl(1), Dbl(0), Dbl(1)>>, <<Dbl(2), Dbl(1), Dbl(1)>>}
TsVals == {Dbl(0), Rat(1, 100)}
InitLimits == {<<Dbl(0), Dbl(100)>>, <<Dbl(100), Dbl(0)>>}

\* <<setpoint, measurement>>
UpdateArgs == {<<Dbl(10), Dbl(0)>>, <<Dbl(60), Dbl(0)>>,
               <<Dbl(1), Dbl(1)>>, <<Dbl(0), Dbl(1)>>}
\* <<in_auto, current_output, current_measurement, setpoint>>
ModeArgs == {<<FALSE, Dbl(50), Dbl(0), Dbl(10)>>, <<FALSE, Dbl(150), Dbl(1), Dbl(1)>>,
             <<TRUE, Dbl(50), Dbl(1), Dbl(1)>>, <<TRUE, Dbl(150), Dbl(0), Dbl(10)>>}
\* <<measurement, output>>
ResetArgs == {<<Dbl(0), Dbl(0)>>, <<Dbl(1), Dbl(150)>>}
\* <<beta, tau>>
AdvancedArgs == {<<Dbl(-1), Dbl(-1)>>, <<Half, Rat(1, 100)>>, <<Dbl(2), Dbl(0)>>}
\* <<out_min, out_max>>
LimitArgs == {<<Dbl(40), Dbl(20)>>, <<Dbl(0), Dbl(100)>>}

\* the setpoints given to the second copy of a pair of controllers
PairSetpoints == {Dbl(0), Dbl(60)}

NoCall(p) == [op |-> "Init", auto |-> TRUE, out |-> Zero, meas |-> Zero,
              sp |-> Zero, ret |-> Zero, before |-> p, fresh |-> TRUE,
              lim |-> <<Zero, Zero>>]

---------------------------------------------------------------------------
(* Time-proportioning modulator *)

MinWindow == Rat(1, 100)

TPWM_Init(window_s) ==
    [ window_s |-> IF Gt(window_s, MinWindow) THEN window_s ELSE MinWindow,
      t_in_win |-> Zero ]

\* Wrap that starts the new window at zero
WrapReset(t, window_s) == IF Ge(t, window_s) THEN Zero ELSE t

\* Wrap that starts the new window only after window_s is exceeded
WrapStrict(t, window_s) == IF Gt(t, window_s) THEN Sub(t, window_s) ELSE t

\* if (t_in_win >= window_s) t_in_win -= window_s;
Wrap(t, window_s) == IF Ge(t, window_s) THEN Sub(t, window_s) ELSE t

\* duty_norm clamped to [0, 1]
ClampDuty(duty_norm) ==
    LET d1 == IF Lt(duty_norm, Zero) THEN Zero ELSE duty_norm
    IN  IF Gt(d1, Dbl(1)) THEN Dbl(1) ELSE d1

\* TPWM_Update that is ON up to and including on_time
TPWM_UpdateInclusive(tp, duty_norm, dt) ==
    LET duty == ClampDuty(duty_norm)
        t == Wrap(Add(tp.t_in_win, dt), tp.window_s)
        on_time == Mul(duty, tp.window_s)
    IN  [ tpwm |-> [tp EXCEPT !.t_in_win = t],
          ret |-> IF Le(t, on_time) THEN 1 ELSE 0 ]

TPWM_Update(tp, duty_norm, dt) ==
    LET duty == ClampDuty(duty_norm)
        t == Wrap(Add(tp.t_in_win, dt), tp.window_s)
        on_time == Mul(duty, tp.window_s)
    IN  [ tpwm |-> [tp EXCEPT !.t_in_win = t],
          ret |-> IF Lt(t, on_time) THEN 1 ELSE 0 ]

WindowVals == {Dbl(0), Dbl(1), Dbl(2)}
DutyVals == {Dbl(-1), Dbl(0), Rat(1, 4), Dbl(1), Dbl(2)}
DtVals == {Dbl(0), Rat(1, 200), Rat(3, 4), Rat(5, 2)}

NoTick == [duty |-> Zero, dt |-> Zero, before |-> Zero, ret |-> 0]

---------------------------------------------------------------------------
(* Hysteresis switch *)

\* HysteresisSwitch that turns OFF only above setpoint + deadband/2
HysteresisSwitchStrict(pv, setpoint, deadband, prev_state) ==
    LET db == IF Lt(deadband, Zero) THEN Zero ELSE deadband
    IN  IF prev_state # 0
        THEN IF Gt(pv, Add(setpoint, Mul(db, Half))) THEN 0 ELSE 1
        ELSE IF Le(pv, Sub(setpoint, Mul(db, Half))) THEN 1 ELSE 0

\* HysteresisSwitch that turns ON only below setpoint - deadband/2
HysteresisSwitchStrictOn(pv, setpoint, deadband, prev_state) ==
    LET db == IF Lt(deadband, Zero) THEN Zero ELSE deadband
    IN  IF prev_state # 0
        THEN IF Ge(pv, Add(setpoint, Mul(db, Half))) THEN 0 ELSE 1
        ELSE IF Lt(pv, Sub(setpoint, Mul(db, Half))) THEN 1 ELSE 0

HysteresisSwitch(pv, setpoint, deadband, prev_state) ==
    LET db == IF Lt(deadband, Zero) THEN Zero ELSE deadband
    IN  IF prev_state # 0
        THEN IF Ge(pv, Add(setpoint, Mul(db, Half))) THEN 0 ELSE 1
        ELSE IF Le(pv, Sub(setpoint, Mul(db, Half))) THEN 1 ELSE 0

PvVals == {Dbl(n) : n \in 46..54} \cup {Dbl(-2), Dbl(0), Dbl(2), Rat(99, 2)}
SetpointVals == {Dbl(50), Dbl(0)}
DeadbandVals == {Dbl(-2), Dbl(0), Dbl(3), Dbl(4)}

---------------------------------------------------------------------------
(* Idle values of the parts a specification does not exercise *)

\* the second struct where no pair of controllers is driven
IdleCopy == PID_Init(Zero, Zero, Zero, Zero, Zero, Zero)

IdlePID ==
    /\ pid = PID_Init(Zero, Zero, Zero, Zero, Zero, Zero)
    /\ last = NoCall(pid)
    /\ fresh = TRUE
    /\ frozen = Zero
    /\ pid2 = IdleCopy
    /\ nops = 0

IdleTPWM ==
    /\ tpwm = TPWM_Init(Zero)
    /\ tlast = NoTick
    /\ tsum = Zero
    /\ tsmall = TRUE
    /\ ticks = 0

IdleHyst ==
    hy = [pv |-> Zero, setpoint |-> Zero, deadband |-> Zero,
          prev_state |-> 0, state |-> 0, calls |-> 0, same |-> FALSE]

---------------------------------------------------------------------------
(* Specification of the PID controller *)

Init ==
    /\ \E k \in Gains, Ts \in TsVals, lim \in InitLimits :
          pid = PID_Init(k[1], k[2], k[3], Ts, lim[1], lim[2])
    /\ last = NoCall(pid)
    /\ fresh = TRUE
    /\ frozen = Zero
    /\ pid2 = IdleCopy
    /\ nops = 0
    /\ IdleTPWM
    /\ IdleHyst

\* The record of a call on pid; lim holds the arguments of PID_SetOutputLimits.
Logged(op, auto, out, meas, sp, ret, lim) ==
    /\ nops' = nops + 1
    /\ last' = [op |-> op, auto |-> auto, out |-> out, meas |-> meas,
                sp |-> sp, ret |-> ret, before |-> pid, fresh |-> fresh,
                lim |-> lim]
    /\ fresh' = IF op = "Reset" THEN TRUE ELSE IF op = "Update" THEN FALSE ELSE fresh
    /\ UNCHANGED <<tpwm, tlast, tsum, tsmall, ticks, hy>>

Called(op, auto, out, meas, sp, ret) ==
    /\ Logged(op, auto, out, meas, sp, ret, <<Zero, Zero>>)
    /\ UNCHANGED <<pid2, frozen>>

CallSetAdvanced ==
    /\ nops < MaxOps
    /\ \E a \in AdvancedArgs :
          /\ pid' = PID_SetAdvanced(pid, a[1], a[2])
          /\ Called("SetAdvanced", pid.in_auto, Zero, Zero, Zero, Zero)

SetOutputLimitsStep ==
    \E a \in LimitArgs :
          /\ pid' = PID_SetOutputLimits(pid, a[1], a[2])
          /\ Logged("SetOutputLimits", pid.in_auto, Zero, Zero, Zero, Zero, a)
          /\ UNCHANGED <<pid2, frozen>>

CallSetOutputLimits == nops < MaxOps /\ SetOutputLimitsStep

CallSetMode ==
    /\ nops < MaxOps
    /\ \E a \in ModeArgs :
          /\ pid' = PID_SetMode(pid, a[1], a[2], a[3], a[4])
          /\ Called("SetMode", a[1], a[2], a[3], a[4], Zero)

CallReset ==
    /\ nops < MaxOps
    /\ \E a \in ResetArgs :
          /\ pid' = PID_Reset(pid, a[1], a[2])
          /\ Called("Reset", pid.in_auto, a[2], a[1], Zero, Zero)

UpdateStep ==
    \E a \in UpdateArgs :
          LET r == PID_Update(pid, a[1], a[2])
          IN  /\ pid' = r.pid
              /\ Called("Update", pid.in_auto, Zero, a[2], a[1], r.ret)

CallUpdate == nops < MaxOps /\ UpdateStep

Next ==
    \/ CallSetAdvanced
    \/ CallSetOutputLimits
    \/ CallSetMode
    \/ CallReset
    \/ CallUpdate

Spec == Init /\ [][Next]_vars

---------------------------------------------------------------------------
(* Specification of mode switches, limit changes and updates: one call more
   than Spec, on a controller that PID_Init gave Ts = 0.01 and the limits
   [0, 100]. *)

ModeInit ==
    /\ \E g \in Gains :
          pid = PID_Init(g[1], g[2], g[3], Rat(1, 100), Dbl(0), Dbl(100))
    /\ last = NoCall(pid)
    /\ fresh = TRUE
    /\ frozen = Zero
    /\ pid2 = IdleCopy
    /\ nops = 0
    /\ IdleTPWM
    /\ IdleHyst

\* frozen keeps the current_output of the last Auto->Manual switch
ModeSetMode ==
    /\ nops < MaxModeOps
    /\ \E a \in ModeArgs :
          /\ pid' = PID_SetMode(pid, a[1], a[2], a[3], a[4])
          /\ Logged("SetMode", a[1], a[2], a[3], a[4], Zero, <<Zero, Zero>>)
          /\ frozen' = IF pid.in_auto /\ ~a[1] THEN a[2] ELSE frozen
          /\ UNCHANGED pid2

ModeSetOutputLimits == nops < MaxModeOps /\ SetOutputLimitsStep

ModeUpdate == nops < MaxModeOps /\ UpdateStep

ModeNext ==
    \/ ModeSetMode
    \/ ModeSetOutputLimits
    \/ ModeUpdate

ModeSpec == ModeInit /\ [][ModeNext]_vars

---------------------------------------------------------------------------
(* Specification of a pair of controllers, pid and pid2: equal after PID_Init,
   they receive the same calls with the same arguments, except that pid2 is
   given setpoints of its own. *)

PairInit ==
    /\ \E g \in Gains, ts \in TsVals :
          pid = PID_Init(g[1], g[2], g[3], ts, Dbl(0), Dbl(100))
    /\ pid2 = pid
    /\ last = NoCall(pid)
    /\ fresh = TRUE
    /\ frozen = Zero
    /\ nops = 0
    /\ IdleTPWM
    /\ IdleHyst

PairSetAdvanced ==
    /\ nops < MaxPairOps
    /\ \E a \in AdvancedArgs :
          /\ pid' = PID_SetAdvanced(pid, a[1], a[2])
          /\ pid2' = PID_SetAdvanced(pid2, a[1], a[2])
          /\ Logged("SetAdvanced", pid.in_auto, Zero, Zero, Zero, Zero, <<Zero, Zero>>)
    /\ UNCHANGED frozen

PairSetOutputLimits ==
    /\ nops < MaxPairOps
    /\ \E a \in LimitArgs :
          /\ pid' = PID_SetOutputLimits(pid, a[1], a[2])
          /\ pid2' = PID_SetOutputLimits(pid2, a[1], a[2])
          /\ Logged("SetOutputLimits", pid.in_auto, Zero, Zero, Zero, Zero, a)
    /\ UNCHANGED frozen

PairSetMode ==
    /\ nops < MaxPairOps
    /\ \E a \in ModeArgs, sp2 \in PairSetpoints :
          /\ pid' = PID_SetMode(pid, a[1], a[2], a[3], a[4])
          /\ pid2' = PID_SetMode(pid2, a[1], a[2], a[3], sp2)
          /\ Logged("SetMode", a[1], a[2], a[3], a[4], Zero, <<Zero, Zero>>)
    /\ UNCHANGED frozen

PairReset ==
    /\ nops < MaxPairOps
    /\ \E a \in ResetArgs :
          /\ pid' = PID_Reset(pid, a[1], a[2])
          /\ pid2' = PID_Reset(pid2, a[1], a[2])
          /\ Logged("Reset", pid.in_auto, a[2], a[1], Zero, Zero, <<Zero, Zero>>)
    /\ UNCHANGED frozen

PairUpdate ==
    /\ nops < MaxPairOps
    /\ \E a \in UpdateArgs, sp2 \in PairSetpoints :
          LET r == PID_Update(pid, a[1], a[2])
              r2 == PID_Update(pid2, sp2, a[2])
          IN  /\ pid' = r.pid
              /\ pid2' = r2.pid
              /\ Logged("Update", pid.in_auto, Zero, a[2], a[1], r.ret, <<Zero, Zero>>)
    /\ UNCHANGED frozen

PairNext ==
    \/ PairSetAdvanced
    \/ PairSetOutputLimits
    \/ PairSetMode
    \/ PairReset
    \/ PairUpdate

PairSpec == PairInit /\ [][PairNext]_vars

---------------------------------------------------------------------------
(* Specification of the time-proportioning modulator *)

CallTPWM_Update(duty_norm, dt, limit) ==
    /\ ticks < limit
    /\ LET r == TPWM_Update(tpwm, duty_norm, dt)
       IN  /\ tpwm' = r.tpwm
           /\ tlast' = [duty |-> duty_norm, dt |-> dt,
                        before |-> tpwm.t_in_win, ret |-> r.ret]
    /\ tsum' = Add(tsum, dt)
    /\ tsmall' = (tsmall /\ Ge(dt, Zero) /\ Lt(dt, tpwm.window_s))
    /\ ticks' = ticks + 1
    /\ UNCHANGED <<pid, last, fresh, frozen, pid2, nops, hy>>

TPWMInit ==
    /\ \E w \in WindowVals : tpwm = TPWM_Init(w)
    /\ tlast = NoTick
    /\ tsum = Zero
    /\ tsmall = TRUE
    /\ ticks = 0
    /\ IdlePID
    /\ IdleHyst

TPWMTick == \E duty \in DutyVals, dt \in DtVals : CallTPWM_Update(duty, dt, MaxTicks)

TPWMNext == TPWMTick

TPWMSpec == TPWMInit /\ [][TPWMNext]_vars

(* The polling scenario: window 2.0 s, duty 0.25, dt 0.1 s *)
ScenarioInit ==
    /\ tpwm = TPWM_Init(Dbl(2))
    /\ tlast = NoTick
    /\ tsum = Zero
    /\ tsmall = TRUE
    /\ ticks = 0
    /\ IdlePID
    /\ IdleHyst

ScenarioTick == CallTPWM_Update(Rat(1, 4), Rat(1, 10), MaxScenarioTicks)

ScenarioNext == ScenarioTick

ScenarioSpec == ScenarioInit /\ [][ScenarioNext]_vars

---------------------------------------------------------------------------
(* Specification of a caller threading the hysteresis state *)

HystInit ==
    /\ \E pv \in PvVals, sp \in SetpointVals, db \in DeadbandVals, s \in {0, 1} :
          hy = [pv |-> pv, setpoint |-> sp, deadband |-> db,
                prev_state |-> s, state |-> s, calls |-> 0, same |-> FALSE]
    /\ IdlePID
    /\ IdleTPWM

CallHysteresisSwitch ==
    /\ hy.calls < MaxHystCalls
    /\ \E pv \in PvVals :
          hy' = [hy EXCEPT !.pv = pv, !.prev_state = hy.state,
                           !.state = HysteresisSwitch(pv, hy.setpoint,
                                                      hy.deadband, hy.state),
                           !.calls = hy.calls + 1,
                           !.same = (hy.calls >= 1 /\ pv = hy.pv)]
    /\ UNCHANGED <<pid, last, fresh, frozen, pid2, nops, tpwm, tlast, tsum, tsmall, ticks>>

HystNext == CallHysteresisSwitch

HystSpec == HystInit /\ [][HystNext]_vars

---------------------------------------------------------------------------
(* Properties of the PID controller, checked under Spec *)

Within(x, lo, hi) == Le(lo, x) /\ Le(x, hi)

Updated == last.op = "Update"

\* C1: with ordered limits (PID_Init given out_min <= out_max, or any
\* PID_SetOutputLimits since), every value PID_Update returns, in Auto and
\* in Manual mode, lies in [out_min, out_max] of the limits in force.
C1_OutputWithinLimits ==
    (Updated /\ Le(pid.out_min, pid.out_max))
        => Within(last.ret, pid.out_min, pid.out_max)

\* An Auto update whose unclamped output P + I + D exceeds out_max.
C1_Witness ==
    /\ Updated /\ last.before.in_auto
    /\ Lt(pid.out_min, pid.out_max)
    /\ Gt(Add(Add(PTerm(last.before, last.sp, last.meas), pid.integrator),
              pid.d_term), pid.out_max)
    /\ last.ret = pid.out_max

\* C2: in every reachable state out_min <= out_max.
C2_LimitsOrdered == Le(pid.out_min, pid.out_max)

\* C3: after every PID_Update and every PID_SetOutputLimits the integral
\* accumulator lies in [out_min, out_max].  Stated for ordered limits only,
\* so that a violation does not rest on reversed limits.
C3_IntegratorWithinLimits ==
    (last.op \in {"Update", "SetOutputLimits"} /\ Le(pid.out_min, pid.out_max))
        => Within(pid.integrator, pid.out_min, pid.out_max)

\* The state after a Manual->Auto PID_SetMode with setpoint = current_measurement
\* in which the frozen manual output lies within ordered limits and the
\* back-calculated integral was stored without being clamped.
SwitchedBumpless ==
    /\ last.op = "SetMode" /\ ~last.before.in_auto /\ last.auto
    /\ last.sp = last.meas
    /\ Within(pid.manual_out, pid.out_min, pid.out_max)
    /\ pid.integrator =
          Sub(pid.manual_out,
              Add(PTerm(last.before, last.sp, last.meas), last.before.d_term))

\* C4: bumpless transfer: after PID_SetMode(true, _, y, y) made in Manual mode,
\* the next PID_Update(y, y) returns exactly the frozen manual output.  Stated
\* for the switches described by SwitchedBumpless only, so that a violation
\* does not rest on a manual output outside the limits or on the clamp.
C4_BumplessTransfer ==
    [][ ( /\ SwitchedBumpless
          /\ last'.op = "Update" /\ nops' = nops + 1
          /\ last'.sp = last.sp /\ last'.meas = last.meas )
        => last'.ret = pid.manual_out ]_vars

\* The anti-windup condition of an Auto update, from the struct before the
\* call, its arguments and the derivative term the call stored:
\* tentative output P + (integrator + Ki*Ts*error) + D beyond a limit with the
\* error pointing the same way.
Saturating ==
    LET b == last.before
        e == Sub(last.sp, last.meas)
        tentative ==
            Add(Add(Mul(b.Kp, Sub(Mul(b.beta, last.sp), last.meas)),
                    Add(b.integrator, Mul(Mul(b.Ki, b.Ts), e))),
                pid.d_term)
    IN  \/ Gt(tentative, b.out_max) /\ Gt(e, Zero)
        \/ Lt(tentative, b.out_min) /\ Lt(e, Zero)

\* C5: an Auto update whose tentative output is above out_max with error > 0,
\* or below out_min with error < 0, leaves the integral accumulator unchanged.
C5_AntiWindup ==
    (Updated /\ last.before.in_auto /\ Saturating)
        => pid.integrator = last.before.integrator

\* A saturating Auto update on the low side whose candidate differed from the
\* accumulator (Ki*Ts*error # 0), with ordered limits.
C5_Witness ==
    /\ Updated /\ last.before.in_auto /\ Saturating
    /\ Lt(pid.out_min, pid.out_max)
    /\ Lt(last.sp, last.meas)
    /\ pid.Ki # Zero

\* C6: on the first PID_Update after PID_Init or PID_Reset the stored
\* filtered derivative is 0 after the call, in either mode and whichever
\* other calls came in between.
C6_FirstUpdateNoDerivative ==
    (Updated /\ last.fresh) => pid.d_term = Zero

\* C12 (ModeSpec): in Manual mode every PID_Update returns the output frozen
\* at the Auto->Manual switch (the current_output passed to PID_SetMode)
\* clamped to the output limits in force at that call, also after
\* PID_SetOutputLimits has narrowed and later widened the limits while in
\* Manual, and it leaves the integral accumulator unchanged.
C12_ManualOutputFrozen ==
    (Updated /\ ~last.before.in_auto /\ Le(pid.out_min, pid.out_max))
        => /\ last.ret = IF Lt(frozen, pid.out_min) THEN pid.out_min
                         ELSE IF Gt(frozen, pid.out_max) THEN pid.out_max
                         ELSE frozen
           /\ pid.integrator = last.before.integrator

\* x brought into [lo, hi], for lo <= hi
Into(x, lo, hi) == IF Lt(x, lo) THEN lo ELSE IF Gt(x, hi) THEN hi ELSE x

\* A PID_SetMode that asked for the mode the controller was in.
SameModeRequested == last.op = "SetMode" /\ last.auto = last.before.in_auto

\* C13: PID_SetMode called with the mode the controller is already in is a
\* no-op: every field of the instance is as before the call, whatever
\* current_output, current_measurement and setpoint are passed.
C13_SetModeSameModeNoOp ==
    SameModeRequested => pid = last.before

\* PID_SetMode(true, out, y, sp) in Auto before any update, with y different
\* from the previous measurement and out from the manual output.
C13_Witness ==
    /\ SameModeRequested /\ last.auto
    /\ last.before.first_update
    /\ last.meas # last.before.prev_meas
    /\ last.out # last.before.manual_out

\* C14: in every reachable state Ts > 0, 0 <= beta <= 1, tau >= 0 and the
\* stored smoothing coefficient satisfies d_alpha * (tau + Ts) = Ts with
\* 0 < d_alpha <= 1.
C14_ShapingValid ==
    /\ Gt(pid.Ts, Zero)
    /\ Le(Zero, pid.beta) /\ Le(pid.beta, Dbl(1))
    /\ Ge(pid.tau, Zero)
    /\ Mul(pid.d_alpha, Add(pid.tau, pid.Ts)) = pid.Ts
    /\ Gt(pid.d_alpha, Zero) /\ Le(pid.d_alpha, Dbl(1))

\* After PID_SetAdvanced(2, 0) on an instance that PID_Init gave Ts <= 0:
\* beta clamped to 1, tau = 0 and the coefficient recomputed to 1.
C14_Witness ==
    /\ last.op = "SetAdvanced"
    /\ pid.Ts = DefaultTs /\ pid.tau = Zero /\ pid.beta = Dbl(1)
    /\ pid.d_alpha = Dbl(1) /\ last.before.d_alpha # Dbl(1)

\* An Auto update of a proportional-only controller (Ki = 0, Kd = 0) with a
\* zero integral accumulator and ordered limits.
ProportionalOnly ==
    /\ Updated /\ last.before.in_auto
    /\ last.before.Ki = Zero /\ last.before.Kd = Zero
    /\ last.before.integrator = Zero
    /\ Le(last.before.out_min, last.before.out_max)

\* The scenario of C15: Kp = 2, beta = 1, limits [0, 100], setpoint = 10,
\* measurement = 0.
Scenario20 ==
    /\ ProportionalOnly
    /\ last.before.Kp = Dbl(2) /\ last.before.beta = Dbl(1)
    /\ last.before.out_min = Zero /\ last.before.out_max = Dbl(100)
    /\ last.sp = Dbl(10) /\ last.meas = Zero

\* C15: with Ki = 0, Kd = 0 and a zero integral accumulator the Auto output is
\* Kp * (beta * setpoint - measurement) clamped to [out_min, out_max]; in the
\* scenario Kp = 2, beta = 1, limits [0, 100], setpoint = 10, measurement = 0
\* it is 20.
C15_ProportionalOnly ==
    /\ ProportionalOnly =>
          last.ret = Into(Mul(last.before.Kp,
                              Sub(Mul(last.before.beta, last.sp), last.meas)),
                          last.before.out_min, last.before.out_max)
    /\ Scenario20 => last.ret = Dbl(20)

\* The scenario as the first call after PID_Init.
C15_Witness == Scenario20 /\ nops = 1 /\ last.ret = Dbl(20)

\* C16: a Manual->Auto PID_SetMode(true, _, y, sp) sets the integral
\* accumulator to manual_out - (Kp * (beta * sp - y) + d_term) clamped into
\* [out_min, out_max] (stated for ordered limits), sets the previous
\* measurement to y, clears the first-update flag and leaves d_term unchanged;
\* a PID_Update that follows it with measurement = y computes a zero
\* unfiltered derivative: d_term' = d_term + d_alpha * (0 - d_term).
C16_BackCalculation ==
    [][ /\ ( /\ last'.op = "SetMode" /\ nops' = nops + 1
              /\ ~pid.in_auto /\ last'.auto )
            => /\ Le(pid.out_min, pid.out_max) =>
                    pid'.integrator =
                       Into(Sub(pid.manual_out,
                                Add(Mul(pid.Kp, Sub(Mul(pid.beta, last'.sp),
                                                    last'.meas)),
                                    pid.d_term)),
                            pid.out_min, pid.out_max)
               /\ pid'.prev_meas = last'.meas
               /\ ~pid'.first_update
               /\ pid'.d_term = pid.d_term
        /\ ( /\ last.op = "SetMode" /\ ~last.before.in_auto /\ last.auto
              /\ last'.op = "Update" /\ nops' = nops + 1
              /\ last'.meas = last.meas )
            => pid'.d_term = Add(pid.d_term,
                                 Mul(pid.d_alpha, Sub(Zero, pid.d_term)))
      ]_vars

\* After a Manual->Auto switch with a nonzero stored derivative, a measurement
\* different from the previous one and first-update flag still set before it,
\* whose back-calculated integral had to be clamped.
C16_Witness ==
    /\ last.op = "SetMode" /\ ~last.before.in_auto /\ last.auto
    /\ Lt(pid.out_min, pid.out_max)
    /\ last.before.d_term # Zero
    /\ last.before.prev_meas # last.meas
    /\ pid.integrator = pid.out_max
    /\ Gt(Sub(pid.manual_out,
              Add(Mul(pid.Kp, Sub(Mul(pid.beta, last.sp), last.meas)),
                  pid.d_term)), pid.out_max)

\* The tentative output of the last Auto update: P + candidate integral + D.
Tentative ==
    LET b == last.before
    IN  Add(Add(Mul(b.Kp, Sub(Mul(b.beta, last.sp), last.meas)),
                Add(b.integrator,
                    Mul(Mul(b.Ki, b.Ts), Sub(last.sp, last.meas)))),
            pid.d_term)

\* C17: an Auto update in which the anti-windup condition does not hold
\* commits the candidate: the integral accumulator after the call is its
\* previous value plus Ki * Ts * (setpoint - measurement).
C17_CandidateCommitted ==
    (Updated /\ last.before.in_auto /\ ~Saturating)
        => pid.integrator =
              Add(last.before.integrator,
                  Mul(Mul(last.before.Ki, last.before.Ts),
                      Sub(last.sp, last.meas)))

\* An Auto update above out_max whose error points back down: the
\* accumulator was lowered.
C17_Witness ==
    /\ Updated /\ last.before.in_auto /\ ~Saturating
    /\ Lt(pid.out_min, pid.out_max)
    /\ Gt(Tentative, pid.out_max)
    /\ Lt(last.sp, last.meas)
    /\ Lt(pid.integrator, last.before.integrator)

\* C18 (PairSpec): derivative on measurement only: two controllers with equal
\* state that receive the same calls with the same measurements but different
\* setpoints have the same stored filtered derivative and the same
\* previous-measurement memory after every PID_Update, Auto or Manual.
C18_DerivativeIgnoresSetpoint ==
    Updated => /\ pid.d_term = pid2.d_term
               /\ pid.prev_meas = pid2.prev_meas

\* After an Auto update of the pair whose setpoints have made the integral
\* accumulators differ, with a nonzero filtered derivative.
C18_Witness ==
    /\ Updated /\ last.before.in_auto /\ pid2.in_auto
    /\ pid.integrator # pid2.integrator
    /\ pid.d_term # Zero
    /\ pid.d_term = pid2.d_term

\* C19: PID_SetOutputLimits(a, b) sets out_min = min(a, b) and
\* out_max = max(a, b), replaces the integral accumulator by its previous
\* value clamped into the new limits, and changes nothing else.
C19_SetOutputLimits ==
    last.op = "SetOutputLimits" =>
        LET a == last.lim[1]
            b == last.lim[2]
            lo == IF Le(a, b) THEN a ELSE b
            hi == IF Le(a, b) THEN b ELSE a
        IN  pid = [last.before EXCEPT
                      !.out_min = lo, !.out_max = hi,
                      !.integrator = Into(last.before.integrator, lo, hi)]

\* Reversed arguments, with an accumulator above the new maximum.
C19_Witness ==
    /\ last.op = "SetOutputLimits"
    /\ Gt(last.lim[1], last.lim[2])
    /\ Gt(last.before.integrator, last.lim[1])
    /\ pid.integrator = last.lim[1]
    /\ pid.out_min = last.lim[2]

\* C22: the mode flag is driven by PID_SetMode alone: PID_Init leaves the
\* controller in Auto, after PID_SetMode(x, ...) the mode is x, and PID_Update,
\* PID_Reset, PID_SetAdvanced and PID_SetOutputLimits keep the mode; the
\* manual output changes only in an Auto->Manual PID_SetMode, which stores
\* current_output, and in a Manual PID_Update.
C22_ModeMachine ==
    /\ last.op = "Init" => pid.in_auto
    /\ last.op = "SetMode" => pid.in_auto = last.auto
    /\ last.op \in {"Update", "Reset", "SetAdvanced", "SetOutputLimits"}
          => pid.in_auto = last.before.in_auto
    /\ (last.op = "SetMode" /\ last.before.in_auto /\ ~last.auto)
          => pid.manual_out = last.out
    /\ pid.manual_out # last.before.manual_out
          => \/ last.op = "SetMode" /\ last.before.in_auto /\ ~last.auto
             \/ last.op = "Update" /\ ~last.before.in_auto

\* A PID_Reset made in Manual mode, with a manual output that was frozen at
\* the switch and differs from the output passed to PID_Reset.
C22_Witness ==
    /\ last.op = "Reset" /\ ~last.before.in_auto /\ ~pid.in_auto
    /\ pid.manual_out # Zero
    /\ pid.manual_out # last.out
    /\ pid.integrator = last.out

---------------------------------------------------------------------------
(* Properties of the time-proportioning modulator *)

\* largest integer <= q
Floor(q) == q[1] \div q[2]

\* x modulo w, for w > 0
RMod(x, w) == Sub(x, Mul(Dbl(Floor(Div(x, w))), w))

\* C7 (TPWMSpec): after TPWM_Init and any TPWM_Update calls with dt >= 0 of any
\* size, 0 <= t_in_win < window_s.
C7_ElapsedWithinWindow ==
    Le(Zero, tpwm.t_in_win) /\ Lt(tpwm.t_in_win, tpwm.window_s)

\* C8 as claimed (ScenarioSpec): counting calls from 1, in each window of 20
\* consecutive calls, the first included, the decision is ON for the first 5
\* calls and OFF for the other 15: call k is ON exactly if (k-1) mod 20 < 5.
C8_OnFirstFiveCallsOfEachWindow ==
    ticks >= 1 => (tlast.ret = 1 <=> ((ticks - 1) % 20) < 5)

\* C8 amended (ScenarioSpec): the decision of call k is ON exactly if
\* k mod 20 < 5, that is while the elapsed time k/10 s modulo 2.0 s is below
\* 0.5 s: calls 1..4 are ON, calls 5..19 OFF, and from call 20 on every 20
\* calls are 5 ON followed by 15 OFF, without shifting.
C8_OnWhileElapsedBelowOnTime ==
    ticks >= 1 => (tlast.ret = 1 <=> (ticks % 20) < 5)

\* The call that opens the fourth window: the elapsed time wrapped to 0.
C8_Witness ==
    ticks = 60 /\ tlast.ret = 1 /\ tpwm.t_in_win = Zero

\* C9 (TPWMSpec): a TPWM_Update that finds t_in_win + dt >= window_s stores
\* t_in_win + dt - window_s, and as long as every dt was in [0, window_s),
\* t_in_win is the sum of all dt since TPWM_Init modulo window_s.
C9_PhasePreserved ==
    ticks >= 1 =>
        /\ Ge(Add(tlast.before, tlast.dt), tpwm.window_s)
              => tpwm.t_in_win = Sub(Add(tlast.before, tlast.dt), tpwm.window_s)
        /\ tsmall => tpwm.t_in_win = RMod(tsum, tpwm.window_s)

\* A call with dt < window_s that crossed the window boundary with an overshoot.
C9_Witness ==
    /\ ticks >= 2 /\ tsmall
    /\ Gt(Add(tlast.before, tlast.dt), tpwm.window_s)
    /\ Gt(tpwm.t_in_win, Zero)

\* The duty of the last call brought into [0, 1]
ClampedDuty ==
    IF Le(tlast.duty, Zero) THEN Zero
    ELSE IF Ge(tlast.duty, Dbl(1)) THEN Dbl(1) ELSE tlast.duty

\* C21 (TPWMSpec): as long as every dt was in [0, window_s), a call with
\* duty_norm >= 1 returns ON and a call with duty_norm <= 0 returns OFF, and
\* a call with a duty outside [0, 1] returns the decision and stores the
\* elapsed time that the same call with the clamped duty gives.
C21_DutyExtremes ==
    (ticks >= 1 /\ tsmall) =>
        LET t == Add(tlast.before, tlast.dt)
            stored == IF Ge(t, tpwm.window_s) THEN Sub(t, tpwm.window_s) ELSE t
        IN  /\ Ge(tlast.duty, Dbl(1)) => tlast.ret = 1
            /\ Le(tlast.duty, Zero) => tlast.ret = 0
            /\ tpwm.t_in_win = stored
            /\ tlast.ret = IF Lt(stored, Mul(ClampedDuty, tpwm.window_s))
                           THEN 1 ELSE 0

\* A call with duty 2 that crossed the window boundary and returned ON, and
\* leaves the elapsed time at 0 < t_in_win < window_s.
C21_Witness ==
    /\ ticks >= 2 /\ tsmall
    /\ Gt(tlast.duty, Dbl(1)) /\ tlast.ret = 1
    /\ Ge(Add(tlast.before, tlast.dt), tpwm.window_s)
    /\ Gt(tpwm.t_in_win, Zero)

---------------------------------------------------------------------------
(* Properties of the hysteresis switch, checked under HystSpec *)

Scenario50(s, x) ==
    /\ hy.calls >= 1 /\ hy.setpoint = Dbl(50) /\ hy.deadband = Dbl(4)
    /\ hy.prev_state = s /\ hy.pv = Dbl(x)

C20_NoChatter ==
    hy.same => hy.state = hy.prev_state

===========================================================================
